---- MODULE Spec2Model ----
(***************************************************************************)
(* tensorprob: the Model class (model.py) and BaseDistribution             *)
(* (distributions/base_distribution.py) as a state machine.                *)
(*                                                                         *)
(* The state is the class attribute Model._current_model, the instance     *)
(* attributes of every Model, the TensorFlow default graph as far as the   *)
(* code reads it, and the outcome of the last call.  One action per        *)
(* method; a call that raises is a step that changes only what the code    *)
(* had assigned before the raise.                                          *)
(***************************************************************************)
EXTENDS Naturals, Sequences, FiniteSets

\* ----------------------------------------------------------------- bounds
MaxNodes == 2       \* distribution nodes constructed in one run
MaxSplitNodes == 4  \* the same, where only one model and one class are used
MaxScopes == 2      \* successful __enter__ calls in one run
MaxRewrites == 2    \* observed() calls that reach the graph rewrite
MaxArgs == 2        \* positional arguments / mapping entries of one call
MaxEntries == 1     \* entries of a mapping passed to assign() by the caller
MaxVal == 1         \* parameter values are 0..MaxVal

Models == {"m1", "m2"}
None == "None"
\* an attribute holding None or not set at all, and one holding x
Null == << >>
Some(x) == <<x>>
Get(o) == o[1]
\* Tensors: distribution node n (a placeholder of the default graph, graph 0),
\* and an object that is not a BaseDistribution
Node(n) == [kind |-> "BaseDistribution", graph |-> 0, idx |-> n]
NonDist == [kind |-> "object", graph |-> 0, idx |-> 0]
Values == 0..MaxVal
\* 1e-10 (model.py:81, 85); the supports of the nodes are multiples of it
Eps == 1

\* The class of a node: whether it overrides logp(), which of the attributes
\* lower and upper its instances have, and their values (Null: None).
\* BaseDistribution itself, a subclass that declares no support, one with
\* support [0, None) and one with support [0, 3]
BaseDistribution == [logp |-> FALSE, declares |-> {}, lower |-> Null, upper |-> Null]
Undeclared == [logp |-> TRUE, declares |-> {}, lower |-> Null, upper |-> Null]
HalfBounded == [logp |-> TRUE, declares |-> {"lower", "upper"},
                lower |-> Some(0), upper |-> Null]
Bounded == [logp |-> TRUE, declares |-> {"lower", "upper"},
            lower |-> Some(0), upper |-> Some(3)]
PlainClasses == {BaseDistribution, Undeclared}
Classes == PlainClasses \cup {HalfBounded, Bounded}

VARIABLES
    _current_model,        \* Model._current_model: a model or None
    default_graph,         \* the process-wide tf default graph
    created,               \* created[n]: the model and scope node n was built in,
                           \* and its class
    scopes,                \* scopes[m]: how many times m has been entered
    with_block,            \* the models whose with block is running
    _components,           \* self._components
    _original_nll,         \* self._original_nll (None: attribute not set)
    _original_graph_def,   \* self._original_graph_def (None: attribute not set)
    _observed,             \* self._observed
    _hidden,               \* self._hidden
    _observed_new,         \* self._observed_new
    _observable_logps,     \* self._observable_logps
    _placeholder_to_variable,
    _variable_to_placeholder,
    _nll,                  \* self._nll (None: attribute not set)
    _observable_logps_new, \* self._observable_logps_new (None: not set)
    session,               \* self.session: the graph it is bound to
    live,                  \* sessions of the model created and not closed
    rewrites,              \* rewrites[m]: graphs built by observed() so far
    values,                \* values of the tf.Variables in self.session
    last                   \* the last call and how it ended

modelVars == <<_components, _original_nll, _original_graph_def>>
splitVars == <<_observed, _hidden, _observed_new, _observable_logps,
               _placeholder_to_variable, _variable_to_placeholder>>
sessionVars == <<_nll, _observable_logps_new, session, live, values>>
vars == <<_current_model, default_graph, created, scopes, with_block, modelVars,
          splitVars, sessionVars, rewrites, last>>

\* ---------------------------------------------------------------- helpers
Range(s) == {s[i] : i \in 1..Len(s)}

SeqsUpTo(S, n) == UNION {[1..k -> S] : k \in 0..n}

\* the empty dict()
EmptyMap == [x \in {} |-> None]

\* d[k] = v on a dict
Put(d, k, v) == [x \in (DOMAIN d) \cup {k} |-> IF x = k THEN v ELSE d[x]]

Sum(f) ==
    LET RECURSIVE S(_)
        S(D) == IF D = {} THEN 0
                ELSE LET x == CHOOSE y \in D : TRUE IN f[x] + S(D \ {x})
    IN S(DOMAIN f)

\* the outcome of a call: the method, the model, how it ended (ok or the
\* exception) and what it was called with and passed on, as far as the
\* properties below read it
Outcome(op, m, result, arg) == [op |-> op, m |-> m, result |-> result, arg |-> arg]

\* ---------------------------------------------------------- Model.__init__
Init ==
    /\ _current_model = None
    /\ default_graph = [placeholders |-> 0, nlls |-> 0]
    /\ created = << >>
    /\ scopes = [m \in Models |-> 0]
    /\ with_block = {}
    /\ _components = [m \in Models |-> << >>]
    /\ _original_nll = [m \in Models |-> Null]
    /\ _original_graph_def = [m \in Models |-> Null]
    /\ _observed = [m \in Models |-> Null]
    /\ _hidden = [m \in Models |-> Null]
    /\ _observed_new = [m \in Models |-> Null]
    /\ _observable_logps = [m \in Models |-> Null]
    /\ _placeholder_to_variable = [m \in Models |-> Null]
    /\ _variable_to_placeholder = [m \in Models |-> Null]
    /\ _nll = [m \in Models |-> Null]
    /\ _observable_logps_new = [m \in Models |-> Null]
    /\ session = [m \in Models |-> [graph |-> 0, placeholders |-> 0, nlls |-> 0]]
    /\ live = [m \in Models |-> {0}]
    /\ rewrites = [m \in Models |-> 0]
    /\ values = [m \in Models |-> EmptyMap]
    /\ last = Outcome("__init__", None, "ok", None)

\* --------------------------------------------------------- Model.__enter__
\* __enter__ without the test of line 27 (a variant C1 must tell apart)
EnterSkipsCheck(cur, m) == m

\* what __enter__ leaves in Model._current_model when called on m

EnterSlot(cur, m) == IF cur # None THEN cur ELSE m

EnterResult(cur) == IF cur # None THEN "ModelError" ELSE "ok"

\* "with m:" calls m.__enter__(); the block runs only if it returns
__enter__(m) ==
    /\ _current_model' = EnterSlot(_current_model, m)
    /\ IF EnterResult(_current_model) = "ok"
       THEN /\ Sum(scopes) < MaxScopes
            /\ scopes' = [scopes EXCEPT ![m] = @ + 1]
            /\ with_block' = with_block \cup {m}
       ELSE UNCHANGED <<scopes, with_block>>
    /\ last' = Outcome("__enter__", m, EnterResult(_current_model), None)
    /\ UNCHANGED <<default_graph, created, modelVars, splitVars, sessionVars,
                   rewrites>>

\* ---------------------------------------------------------- Model.__exit__
\* the graph self.session is bound to, as as_graph_def() serialises it
SessionGraph(m, dg) ==
    IF session[m].graph = 0
    THEN [graph |-> 0, placeholders |-> dg.placeholders, nlls |-> dg.nlls]
    ELSE session[m]

\* line 33 moved behind the building of the NLL (a variant C2 must tell apart)
ExitSlotAfterBuild(cur, built) == IF built THEN None ELSE cur

\* Model._current_model after __exit__; built: the joint NLL was built

ExitSlot(cur, built) == None

\* BaseDistribution.logp raises NotImplementedError; a subclass overrides it;
\* another object has no such method
logp(c) ==
    IF c.kind # "BaseDistribution" THEN "AttributeError"
    ELSE IF created[c.idx].class.logp THEN "ok" ELSE "NotImplementedError"

\* the with statement calls m.__exit__ when the block of m ends, normally or
\* with an exception (exc)
__exit__(m, exc) ==
    LET cs == _components[m]
        built == \A i \in 1..Len(cs) : logp(cs[i]) = "ok"
        dg == IF cs # << >> /\ built
              THEN [default_graph EXCEPT !.nlls = @ + 1] ELSE default_graph
    IN
    /\ m \in with_block
    /\ with_block' = with_block \ {m}
    /\ _current_model' = ExitSlot(_current_model, built)
    /\ default_graph' = dg
    /\ IF ~built
       THEN /\ UNCHANGED <<_original_nll, _original_graph_def>>
            /\ last' = Outcome("__exit__", m, "NotImplementedError", None)
       ELSE /\ _original_nll' =
                IF cs # << >>
                THEN [_original_nll EXCEPT ![m] =
                         Some([name |-> dg.nlls, terms |-> cs])]
                ELSE _original_nll
            /\ _original_graph_def' =
                [_original_graph_def EXCEPT ![m] = Some(SessionGraph(m, dg))]
            /\ last' = Outcome("__exit__", m, "ok", None)
    /\ UNCHANGED <<created, scopes, _components, splitVars, sessionVars, rewrites>>

\* ------------------------------------------------- BaseDistribution.__init__
\* current_model falling back to a model instead of raising (a variant C3
\* must tell apart)
current_model_or_first(cur) == IF cur = None THEN "m1" ELSE cur

\* Model.current_model
current_model(cur) == IF cur = None THEN "ModelError" ELSE cur


\* track_variable inserting at the front (a variant C4 must tell apart)
track_variable_front(cs, obj) == <<obj>> \o cs

\* Model.track_variable
track_variable(cs, obj) == Append(cs, obj)

\* constructing a distribution node: the next one is node Len(created) + 1,
\* and at most limit nodes are constructed
BaseDistribution__init__(class, limit) ==
    LET n == Node(Len(created) + 1)
        cm == current_model(_current_model)
    IN
    IF cm = "ModelError"
    THEN /\ last' = Outcome("BaseDistribution", None, "ModelError", n)
         /\ UNCHANGED <<_current_model, default_graph, created, scopes, with_block,
                        modelVars, splitVars, sessionVars, rewrites>>
    ELSE /\ n.idx <= limit
         /\ _components' = [_components EXCEPT ![cm] = track_variable(@, n)]
         /\ created' = Append(created, [model |-> cm, scope |-> scopes[cm],
                                      class |-> class])
         /\ default_graph' = [default_graph EXCEPT !.placeholders = @ + 1]
         /\ last' = Outcome("BaseDistribution", cm, "ok", n)
         /\ UNCHANGED <<_current_model, scopes, with_block, _original_nll,
                        _original_graph_def, splitVars, sessionVars, rewrites>>

\* ----------------------------------------------------------- Model.observed
\* the objects a caller can pass: the nodes constructed so far, or another object
Nodes == {Node(n) : n \in 1..Len(created)}
ArgObjs == Nodes \cup {NonDist}

\* tf.placeholder / tf.Variable number i created in graph g
Placeholder(g, i) == [kind |-> "placeholder", graph |-> g, idx |-> i]
Variable(g, i) == [kind |-> "Variable", graph |-> g, idx |-> i]

\* observed() without the test of line 126 (a variant C7 must tell apart)
ObservedNoScopeCheck(cur, m, args) ==
    IF \E i \in 1..Len(args) : args[i] = NonDist THEN "ValueError" ELSE "ok"

\* observed() testing the type of its first argument only (a variant C19 must
\* tell apart)
ObservedChecksFirstOnly(cur, m, args) ==
    IF cur = m THEN "ModelError"
    ELSE IF args # << >> /\ args[1] = NonDist THEN "ValueError"
         ELSE "ok"

\* lines 126-131: the checks made before anything is assigned

ObservedCheck(cur, m, args) ==
    IF cur = m THEN "ModelError"
    ELSE IF \E i \in 1..Len(args) : args[i] = NonDist THEN "ValueError"
         ELSE "ok"

\* the hidden list built back to front (a variant C18 must tell apart)
HiddenReversed(cs, args) ==
    LET hs == SelectSeq(cs, LAMBDA x : x \notin Range(args))
    IN [i \in 1..Len(hs) |-> hs[Len(hs) + 1 - i]]

\* lines 137-140: the components that are not among the arguments

Hidden(cs, args) == SelectSeq(cs, LAMBDA x : x \notin Range(args))

\* lines 154-159 and 160-164: the two dicts after the first k entries of
\* nodes have been paired with handles
RECURSIVE MapTo(_, _, _, _)
MapTo(d, nodes, handles, k) ==
    IF k = 0 THEN d
    ELSE Put(MapTo(d, nodes, handles, k - 1), nodes[k], handles[k])

RECURSIVE MapFrom(_, _, _, _)
MapFrom(d, nodes, handles, k) ==
    IF k = 0 THEN d
    ELSE Put(MapFrom(d, nodes, handles, k - 1), handles[k], nodes[k])

\* parameters that keep the value their predecessor of the same position had
\* (a variant C8 must tell apart)
InitialValuesKept(m, hs) ==
    [h \in Range(hs) |->
        IF \E o \in DOMAIN values[m] : o.idx = h.idx
        THEN values[m][CHOOSE o \in DOMAIN values[m] : o.idx = h.idx] ELSE 0]

\* lines 161 and 183: tf.Variable(config.dtype(0)), initialize_all_variables
InitialValues(m, hs) == [h \in Range(hs) |-> 0]

\* lines 149-150: the dicts the loops of lines 154-164 start from
FreshMaps(d) == EmptyMap

\* line 157: the first argument whose logp() raises (0: none does)
LogpFail(args) ==
    IF \A i \in 1..Len(args) : logp(args[i]) = "ok" THEN 0
    ELSE CHOOSE i \in 1..Len(args) :
            /\ logp(args[i]) # "ok"
            /\ \A j \in 1..(i - 1) : logp(args[j]) = "ok"

\* lines 166-171: tf.import_graph_def raises when input_map names a tensor
\* that the graph_def does not hold; graph_def holds the placeholders of the
\* nodes constructed before it was taken
ImportResult(graph_def, input_map) ==
    IF \A k \in DOMAIN input_map : k.idx <= graph_def.placeholders
    THEN "ok" ELSE "GraphError"

\* line 174: get_tensor_by_name raises KeyError for a name the graph lacks
LookupResult(graph_def, tensor) ==
    IF tensor.name <= graph_def.nlls THEN "ok" ELSE "KeyError"

\* tf.Session(graph=g) before self.session.close() (a variant C17 must tell
\* apart)
SessionSwapCreateFirst(ls, old, g) == <<ls \cup {g}, (ls \cup {g}) \ {old}>>

\* lines 181-182: the live sessions of the model after self.session.close()
\* and after tf.Session(graph=g)

SessionSwap(ls, old, g) == <<ls \ {old}, (ls \ {old}) \cup {g}>>

\* m.observed(*args)
observed(m, args) ==
    LET check == ObservedCheck(_current_model, m, args)
        logpFail == LogpFail(args)
        g == rewrites[m] + 1
        n == Len(args)
        \* placeholders created, and arguments fully processed
        made == IF logpFail = 0 THEN n ELSE logpFail
        done == IF logpFail = 0 THEN n ELSE logpFail - 1
        phs == [i \in 1..made |-> Placeholder(g, i)]
        hidden == IF logpFail = 0 THEN Hidden(_components[m], args) ELSE << >>
        hvars == [j \in 1..Len(hidden) |-> Variable(g, j)]
        p2v == MapTo(MapTo(FreshMaps(_placeholder_to_variable[m]), args, phs, done),
                     hidden, hvars, Len(hidden))
        v2p == MapFrom(MapFrom(FreshMaps(_variable_to_placeholder[m]), args, phs, done),
                       hidden, hvars, Len(hidden))
        snap == _original_graph_def[m]
        result == IF logpFail # 0 THEN "NotImplementedError"
                  ELSE IF ImportResult(Get(snap), p2v) # "ok" THEN "GraphError"
                  ELSE IF _original_nll[m] = Null THEN "AttributeError"
                  ELSE LookupResult(Get(snap), Get(_original_nll[m]))
        swap == SessionSwap(live[m], session[m].graph, g)
        \* the kinds of objects among the arguments
        types == {args[i].kind : i \in 1..Len(args)}
    IN
    IF check # "ok"
    THEN /\ last' = Outcome("observed", m, check, [types |-> types, swap |-> Null])
         /\ UNCHANGED <<_current_model, default_graph, created, scopes, with_block,
                        modelVars, splitVars, sessionVars, rewrites>>
    ELSE IF snap = Null
    THEN /\ last' = Outcome("observed", m, "AttributeError",
                            [types |-> types, swap |-> Null])
         /\ UNCHANGED <<_current_model, default_graph, created, scopes, with_block,
                        modelVars, splitVars, sessionVars, rewrites>>
    ELSE /\ Sum(rewrites) < MaxRewrites
         /\ rewrites' = [rewrites EXCEPT ![m] = g]
         /\ _hidden' = [_hidden EXCEPT ![m] = Some(hvars)]
         /\ _observed' = [_observed EXCEPT ![m] = Some(args)]
         /\ _observed_new' = [_observed_new EXCEPT ![m] = Some(phs)]
         /\ _observable_logps' = [_observable_logps EXCEPT ![m] = Some(SubSeq(args, 1, done))]
         /\ _placeholder_to_variable' = [_placeholder_to_variable EXCEPT ![m] = Some(p2v)]
         /\ _variable_to_placeholder' = [_variable_to_placeholder EXCEPT ![m] = Some(v2p)]
         /\ IF result = "ok"
            THEN /\ _nll' = [_nll EXCEPT ![m] =
                        Some([graph |-> g, name |-> Get(_original_nll[m]).name,
                              needs |-> {p2v[c] : c \in Range(Get(_original_nll[m]).terms)
                                                          \cap Range(args)}])]
                 /\ _observable_logps_new' =
                        [_observable_logps_new EXCEPT ![m] =
                             Some([graph |-> g, logps |-> args,
                                   needs |-> {p2v[a] : a \in Range(args)}])]
                 /\ live' = [live EXCEPT ![m] = swap[Len(swap)]]
                 /\ session' = [session EXCEPT ![m] =
                        [graph |-> g, placeholders |-> Get(snap).placeholders,
                         nlls |-> Get(snap).nlls]]
                 /\ values' = [values EXCEPT ![m] = InitialValues(m, hvars)]
            ELSE UNCHANGED sessionVars
         /\ last' = Outcome("observed", m, result,
                            [types |-> types,
                             swap |-> IF result = "ok" THEN Some(swap) ELSE Null])
         /\ UNCHANGED <<_current_model, default_graph, created, scopes, with_block,
                        modelVars>>

\* ------------------------------------------------------ Model._prepare_model
\* the data arguments of pdf, nll and fit are told apart by their position
Data(n) == [i \in 1..n |-> i]

\* zip(xs, ys) into a dict
RECURSIVE ZipDict(_, _, _)
ZipDict(xs, ys, k) ==
    IF k = 0 THEN EmptyMap ELSE Put(ZipDict(xs, ys, k - 1), xs[k], ys[k])

Min(a, b) == IF a <= b THEN a ELSE b

\* _prepare_model without the test of line 94 (a variant C11 must tell apart)
PrepareNoObservedCheck(m, args) ==
    IF _observed[m] # Null /\ Len(args) # Len(Get(_observed[m]))
    THEN "ModelError: count" ELSE "ok"

\* _prepare_model without the test of line 97 (a variant C12 must tell apart)
PrepareNoCountCheck(m, args) ==
    IF _observed[m] = Null THEN "ModelError: not observed" ELSE "ok"

\* lines 94-101: the checks

PrepareCheck(m, args) ==
    IF _observed[m] = Null THEN "ModelError: not observed"
    ELSE IF Len(args) # Len(Get(_observed[m])) THEN "ModelError: count"
    ELSE "ok"

\* the feed_dict pairing the placeholders with the arguments back to front
\* (a variant C13 must tell apart)
FeedDictReversed(m, args) ==
    LET new == Get(_observed_new[m])
        k == Min(Len(new), Len(args))
    IN ZipDict(new, [i \in 1..k |-> args[k + 1 - i]], k)

\* lines 103-107: the feed_dict

FeedDict(m, args) ==
    LET new == Get(_observed_new[m])
    IN ZipDict(new, args, Min(Len(new), Len(args)))

\* session.run can evaluate a tensor or feed a placeholder of its own graph only
InSession(m, graph) == graph = session[m].graph

FeedInSession(m, feed) == \A p \in DOMAIN feed : InSession(m, p.graph)

\* self.session.run(fetch, feed_dict=feed): the graph of the fetch and of the
\* fed placeholders, then the placeholders the fetch is computed from
Run(m, fetch, feed) ==
    IF ~(InSession(m, fetch.graph) /\ FeedInSession(m, feed)) THEN "GraphError"
    ELSE IF ~(fetch.needs \subseteq DOMAIN feed) THEN "InvalidArgumentError"
    ELSE "ok"

\* ---------------------------------------------------- Model.pdf, Model.nll
pdf(m, n) ==
    LET args == Data(n)
        check == PrepareCheck(m, args)
        feed == FeedDict(m, args)
        new == _observable_logps_new[m]
        \* tf.add_n raises ValueError for an empty list
        result == IF check # "ok" THEN check
                  ELSE IF new = Null THEN "AttributeError"
                  ELSE IF Get(new).logps = << >> THEN "ValueError"
                  ELSE Run(m, Get(new), feed)
    IN
    /\ last' = Outcome("pdf", m, result,
                       [n |-> n,
                        feed |-> IF result = "ok" THEN Some(feed) ELSE Null,
                        fetch |-> IF result = "ok" THEN new ELSE Null,
                        params |-> IF result = "ok" THEN Some(values[m]) ELSE Null])
    /\ UNCHANGED <<_current_model, default_graph, created, scopes, with_block,
                   modelVars, splitVars, sessionVars, rewrites>>

nll(m, n) ==
    LET args == Data(n)
        check == PrepareCheck(m, args)
        feed == FeedDict(m, args)
        result == IF check # "ok" THEN check
                  ELSE IF _nll[m] = Null THEN "AttributeError"
                  ELSE Run(m, Get(_nll[m]), feed)
    IN
    /\ last' = Outcome("nll", m, result,
                       [n |-> n,
                        feed |-> IF result = "ok" THEN Some(feed) ELSE Null,
                        fetch |-> IF result = "ok" THEN _nll[m] ELSE Null,
                        params |-> IF result = "ok" THEN Some(values[m]) ELSE Null])
    /\ UNCHANGED <<_current_model, default_graph, created, scopes, with_block,
                   modelVars, splitVars, sessionVars, rewrites>>

\* --------------------------------------------------------------- Model.assign
\* the dicts with at most n keys out of K and values out of V
Dicts(K, V, n) == UNION {[D -> V] : D \in {D \in SUBSET K : Cardinality(D) <= n}}

\* the keys a caller can use: a node, a run-time parameter, another object
AssignKeys(m) ==
    ArgObjs \cup (IF _hidden[m] = Null THEN {} ELSE Range(Get(_hidden[m])))

\* line 113, for one item: the lookup and the .assign attribute
AssignOp(m, k) ==
    LET p2v == Get(_placeholder_to_variable[m])
    IN IF k \notin DOMAIN p2v THEN "KeyError"
       ELSE IF p2v[k].kind # "Variable" THEN "AttributeError"
       ELSE "ok"

\* assign without the test of line 110 (a variant C15 must tell apart)
AssignResultsEmptyOk(m, d) ==
    IF DOMAIN d = {} THEN {"ok"}
    ELSE IF _placeholder_to_variable[m] = Null THEN {"AttributeError"}
    ELSE IF \E k \in DOMAIN d : AssignOp(m, k) # "ok"
         THEN {AssignOp(m, k) : k \in {k \in DOMAIN d : AssignOp(m, k) # "ok"}}
    ELSE IF \E k \in DOMAIN d :
                ~InSession(m, Get(_placeholder_to_variable[m])[k].graph)
         THEN {"GraphError"}
    ELSE {"ok"}

\* lines 110-114: how assign(assign_dict) can end; the items of a dict come in
\* an order this model does not keep, so any failing item may be the first

AssignResults(m, d) ==
    IF DOMAIN d = {} THEN {"ValueError"}
    ELSE IF _placeholder_to_variable[m] = Null THEN {"AttributeError"}
    ELSE IF \E k \in DOMAIN d : AssignOp(m, k) # "ok"
         THEN {AssignOp(m, k) : k \in {k \in DOMAIN d : AssignOp(m, k) # "ok"}}
    ELSE IF \E k \in DOMAIN d :
                ~InSession(m, Get(_placeholder_to_variable[m])[k].graph)
         THEN {"GraphError"}
    ELSE {"ok"}

\* the group of ops writing to every parameter of the session (a variant C14
\* must tell apart)
AssignedAll(m, d) ==
    [h \in DOMAIN values[m] |-> d[CHOOSE k \in DOMAIN d : TRUE]]

\* session.run(tf.group(*ops)): the values of the parameters afterwards

Assigned(m, d) ==
    LET p2v == Get(_placeholder_to_variable[m])
    IN [h \in DOMAIN values[m] |->
           IF \E k \in DOMAIN d : p2v[k] = h
           THEN d[CHOOSE k \in DOMAIN d : p2v[k] = h]
           ELSE values[m][h]]

assign(m, d, result) ==
    /\ result \in AssignResults(m, d)
    /\ values' = IF result = "ok" THEN [values EXCEPT ![m] = Assigned(m, d)]
                 ELSE values
    /\ last' = Outcome("assign", m, result, d)
    /\ UNCHANGED <<_current_model, default_graph, created, scopes, with_block,
                   modelVars, splitVars, _nll, _observable_logps_new, session,
                   live, rewrites>>

\* ------------------------------------------------------------------ Model.fit
\* lines 80-83 with the lower bound passed on as declared (a variant C16 must
\* tell apart)
LowerNotRaised(p) ==
    IF "lower" \in p.declares /\ p.lower # Null THEN p.lower ELSE Null

\* lines 80-83 and 84-87: the bounds of a parameter whose node is of class p;
\* hasattr(p, 'lower') is "lower" \in p.declares

Lower(p) ==
    IF "lower" \in p.declares /\ p.lower # Null
    THEN Some(Get(p.lower) + Eps) ELSE Null

Upper(p) ==
    IF "upper" \in p.declares /\ p.upper # Null
    THEN Some(Get(p.upper) - Eps) ELSE Null

\* lines 76-89
Bounds(m, hidden) ==
    [i \in 1..Len(hidden) |->
        LET p == created[Get(_variable_to_placeholder[m])[hidden[i]].idx].class
        IN <<Lower(p), Upper(p)>>]

\* an objective that calls assign only when there is a parameter to assign
\* (a variant C20 must tell apart)
ObjectiveSkipsEmpty(m, candidate, feed) ==
    IF DOMAIN candidate # {} /\ "ok" \notin AssignResults(m, candidate)
    THEN CHOOSE r \in AssignResults(m, candidate) : TRUE
    ELSE IF _nll[m] = Null THEN "AttributeError"
    ELSE Run(m, Get(_nll[m]), feed)

\* lines 72-74, objective(xs): self.assign({placeholder: x, ...}), then
\* self.session.run(self._nll, feed_dict=feed_dict); how the call ends

Objective(m, candidate, feed) ==
    IF "ok" \notin AssignResults(m, candidate)
    THEN CHOOSE r \in AssignResults(m, candidate) : TRUE
    ELSE IF _nll[m] = Null THEN "AttributeError"
    ELSE Run(m, Get(_nll[m]), feed)

\* line 91: the minimizer evaluates the objective at least once, and an
\* exception of the objective ends it; xs is the last candidate vector it
\* evaluates the objective at
fit(m, n, xs) ==
    LET args == Data(n)
        check == PrepareCheck(m, args)
        feed == FeedDict(m, args)
        hidden == Get(_hidden[m])
        v2p == Get(_variable_to_placeholder[m])
        placeholders == [i \in 1..Len(hidden) |-> v2p[hidden[i]]]
        \* lines 69-70: the attributes read, then session.run(hidden)
        split == _variable_to_placeholder[m] # Null /\ _hidden[m] # Null
        runs == \A i \in 1..Len(hidden) : InSession(m, hidden[i].graph)
        ready == check = "ok" /\ split /\ runs
        inits == [i \in 1..Len(hidden) |-> values[m][hidden[i]]]
        candidate == ZipDict(placeholders, xs, Len(hidden))
        result == IF check # "ok" THEN check
                  ELSE IF ~split THEN "AttributeError"
                  ELSE IF ~runs THEN "GraphError"
                  ELSE Objective(m, candidate, feed)
    IN
    /\ ready => xs \in [1..Len(hidden) -> Values]
    /\ ~ready => xs = << >>
    /\ values' = IF result = "ok" THEN [values EXCEPT ![m] = Assigned(m, candidate)]
                 ELSE values
    /\ last' = Outcome("fit", m, result,
                       [n |-> n,
                        feed |-> IF result = "ok" THEN Some(feed) ELSE Null,
                        inits |-> IF ready THEN Some(inits) ELSE Null,
                        bounds |-> IF ready THEN Some(Bounds(m, hidden)) ELSE Null])
    /\ UNCHANGED <<_current_model, default_graph, created, scopes, with_block,
                   modelVars, splitVars, _nll, _observable_logps_new, session,
                   live, rewrites>>

\* ----------------------------------------------------------- specifications
\* the calls that open and close scopes and construct nodes, on the models Ms
\* and the classes Cs, with at most limit nodes
ScopeCalls(Ms, Cs, limit) ==
    \/ \E m \in Ms : __enter__(m)
    \/ \E m \in Ms, exc \in BOOLEAN : __exit__(m, exc)
    \/ \E class \in Cs : BaseDistribution__init__(class, limit)

\* the graph rewrite
ObservedCalls(Ms) ==
    \E m \in Ms, args \in SeqsUpTo(ArgObjs, MaxArgs) : observed(m, args)

\* the calls made on a model after observed()
ModelCalls(Ms) ==
    \/ ObservedCalls(Ms)
    \/ \E m \in Ms, n \in 0..MaxArgs : pdf(m, n)
    \/ \E m \in Ms, n \in 0..MaxArgs : nll(m, n)
    \/ \E m \in Ms :
          \E d \in Dicts(AssignKeys(m), Values, MaxEntries) :
              \E result \in AssignResults(m, d) : assign(m, d, result)
    \/ \E m \in Ms, n \in 0..MaxArgs, xs \in SeqsUpTo(Values, MaxNodes) :
          fit(m, n, xs)

\* every call on every model, on nodes that declare no support
Next == ScopeCalls(Models, PlainClasses, MaxNodes) \/ ModelCalls(Models)

Spec == Init /\ [][Next]_vars

\* scopes and node construction alone, on every model
NextScope == ScopeCalls(Models, PlainClasses, MaxNodes)

SpecScope == Init /\ [][NextScope]_vars

\* scopes, node construction and the graph rewrite, on every model
NextObserved == ScopeCalls(Models, PlainClasses, MaxNodes) \/ ObservedCalls(Models)

SpecObserved == Init /\ [][NextObserved]_vars

\* the life of a single model: every call, on m1 only
NextOne == ScopeCalls({"m1"}, PlainClasses, MaxNodes) \/ ModelCalls({"m1"})

SpecOne == Init /\ [][NextOne]_vars

\* fitting a single model whose nodes declare every kind of support
NextFit ==
    \/ ScopeCalls({"m1"}, Classes, MaxNodes)
    \/ ObservedCalls({"m1"})
    \/ \E n \in 0..MaxArgs, xs \in SeqsUpTo(Values, MaxNodes) : fit("m1", n, xs)

SpecFit == Init /\ [][NextFit]_vars

\* splitting a single model with more nodes, all of one class that has logp()
NextSplit == ScopeCalls({"m1"}, {Undeclared}, MaxSplitNodes) \/ ObservedCalls({"m1"})

SpecSplit == Init /\ [][NextSplit]_vars


\* ===================================================================== claims
\* the call that has just returned or raised
Called(op) == last.op = op
Returned(op) == last.op = op /\ last.result = "ok"

\* ------------------------------------------------------------------------ C1
\* C1: at most one model is open at any time, and __enter__ on any model
\* while a model is open raises ModelError and leaves the open model as it was.
C1_NoNesting ==
    [][/\ Cardinality(with_block') <= 1
       /\ with_block' = {_current_model'} \ {None}
       /\ (last'.op = "__enter__" /\ _current_model # None)
             => /\ last'.result = "ModelError"
                /\ _current_model' = _current_model
                /\ with_block' = with_block]_vars

\* a second model was refused while the open one tracked a node
C1_Witness ==
    /\ Called("__enter__") /\ last.result = "ModelError"
    /\ _current_model \in Models /\ _current_model # last.m
    /\ _components[_current_model] # << >>

\* ------------------------------------------------------------------------ C2
\* C2: after __exit__, whether or not the joint NLL could be built, no model is
\* open, and __enter__ on any model then succeeds.
C2_SlotReleased ==
    [][/\ last'.op = "__exit__" => _current_model' = None /\ with_block' = {}
       /\ (last'.op = "__enter__" /\ _current_model = None)
             => /\ last'.result = "ok"
                /\ _current_model' = last'.m]_vars

\* a model was entered after the __exit__ of a model whose logp() raised
C2_Witness ==
    /\ Returned("__enter__")
    /\ \E m \in Models \ with_block :
          /\ scopes[m] > 0
          /\ _original_graph_def[m] = Null
          /\ \E i \in 1..Len(_components[m]) : logp(_components[m][i]) # "ok"

\* ------------------------------------------------------------------------ C3
\* C3: constructing a node while no model is open raises ModelError (the
\* "no active model" error) and changes no tracked-node list.
C3_NoActiveModel ==
    [][(last'.op = "BaseDistribution" /\ _current_model = None)
          => /\ last'.result = "ModelError"
             /\ UNCHANGED <<_components, created, default_graph>>]_vars

\* the construction was refused although a closed model tracked a node
C3_Witness ==
    /\ Called("BaseDistribution") /\ last.result = "ModelError"
    /\ \E m \in Models : _components[m] # << >>

\* ------------------------------------------------------------------------ C4
\* the nodes constructed so far, in the order of construction
AllNodes == [n \in 1..Len(created) |-> Node(n)]

\* those constructed while m was open, and those of its scope number k
NodesOfModel(m) == SelectSeq(AllNodes, LAMBDA x : created[x.idx].model = m)
NodesOfScope(m, k) ==
    SelectSeq(AllNodes, LAMBDA x : created[x.idx].model = m /\ created[x.idx].scope = k)

\* C4 as stated: when a scope of a model closes, the tracked-node list is
\* exactly the nodes constructed in that scope, in order.
C4_OnlyThisScope ==
    Called("__exit__") => _components[last.m] = NodesOfScope(last.m, scopes[last.m])

\* C4 (amended): the tracked-node list of a model is, once each and in the order
\* of construction, the nodes constructed while that model was open, over all
\* of its scopes; at the close of its first scope these are that scope's nodes.
C4_TrackedInOrder ==
    \A m \in Models :
        /\ _components[m] = NodesOfModel(m)
        /\ (Called("__exit__") /\ last.m = m /\ scopes[m] = 1)
              => _components[m] = NodesOfScope(m, 1)

\* a scope closed with two nodes constructed in it
C4_Witness ==
    /\ Called("__exit__")
    /\ Len(NodesOfScope(last.m, scopes[last.m])) >= 2
    /\ _components[last.m] = NodesOfScope(last.m, scopes[last.m])

\* ------------------------------------------------------------------------ C5
\* the nodes behind the run-time parameters, and the nodes passed to observed()
HiddenNodes(m) ==
    {Get(_variable_to_placeholder[m])[h] : h \in Range(Get(_hidden[m]))}
ObservedNodes(m) == Range(Get(_observed[m]))

\* C5: after observed() completes, the hidden and the observed nodes are
\* disjoint and together are the tracked nodes of the model.
C5_Partition ==
    Returned("observed") =>
        /\ HiddenNodes(last.m) \cap ObservedNodes(last.m) = {}
        /\ HiddenNodes(last.m) \cup ObservedNodes(last.m) = Range(_components[last.m])

\* ------------------------------------------------------------------------ C6
\* C6: observed() given a node that this model does not track raises
\* ValueError, so no such call completes.
C6_UntrackedRejected ==
    Returned("observed") => ObservedNodes(last.m) \subseteq Range(_components[last.m])

\* ------------------------------------------------------------------------ C7
\* C7 as stated: observed() called while any model is open raises ModelError,
\* so no such call completes.
C7_AnyOpenRejected ==
    Returned("observed") => _current_model = None

\* C7 (amended): observed() called on the model that is open raises ModelError
\* and changes nothing.
C7_OwnBlockRejected ==
    [][(last'.op = "observed" /\ _current_model = last'.m)
          => /\ last'.result = "ModelError"
             /\ UNCHANGED <<modelVars, splitVars, sessionVars, rewrites>>]_vars

\* observed() was refused inside the block of its own model, after a node
C7_Witness ==
    /\ Called("observed") /\ last.result = "ModelError"
    /\ _current_model = last.m
    /\ _components[last.m] # << >>

\* ------------------------------------------------------------------------ C8
\* the state a single observed(*args) leaves on a closed model whose rewritten
\* graph is g: parameter j stands for the j-th tracked node not in args, and
\* placeholder i for args[i]
SplitOf(m, args, g) ==
    LET hs == SelectSeq(_components[m], LAMBDA x : \A i \in 1..Len(args) : args[i] # x)
    IN [hidden |-> [j \in 1..Len(hs) |-> Variable(g, j)],
        observed_new |-> [i \in 1..Len(args) |-> Placeholder(g, i)],
        p2v |-> [k \in Range(hs) \cup Range(args) |->
                    IF k \in Range(hs)
                    THEN Variable(g, CHOOSE j \in 1..Len(hs) : hs[j] = k)
                    ELSE Placeholder(g, CHOOSE i \in 1..Len(args) :
                            args[i] = k /\ \A j \in (i + 1)..Len(args) : args[j] # k)],
        v2p |-> [h \in {Variable(g, j) : j \in 1..Len(hs)}
                       \cup {Placeholder(g, i) : i \in 1..Len(args)} |->
                    IF h.kind = "Variable" THEN hs[h.idx] ELSE args[h.idx]],
        values |-> [h \in {Variable(g, j) : j \in 1..Len(hs)} |-> 0]]

\* C8: after observed(S) completes, whatever observed(), assign() and fit()
\* calls came before, the split, the two maps and the parameter values are
\* those of a single observed(S): built from the tracked nodes and S alone, in
\* the new graph, with every parameter zero.
C8_Supersedes ==
    Returned("observed") =>
        LET m == last.m
            new == SplitOf(m, Get(_observed[m]), rewrites[m])
        IN /\ Get(_hidden[m]) = new.hidden
           /\ Get(_observed_new[m]) = new.observed_new
           /\ Get(_placeholder_to_variable[m]) = new.p2v
           /\ Get(_variable_to_placeholder[m]) = new.v2p
           /\ values[m] = new.values
           /\ session[m].graph = rewrites[m]
           /\ Get(_nll[m]).graph = rewrites[m]
           /\ Get(_observable_logps_new[m]).graph = rewrites[m]
           /\ Get(_observable_logps_new[m]).logps = Get(_observed[m])

\* a second observed() completed on a model with a hidden parameter
C8_Witness ==
    /\ Returned("observed")
    /\ rewrites[last.m] = 2
    /\ Get(_hidden[last.m]) # << >>

\* ------------------------------------------------------------------------ C9
\* C9: once set, the joint NLL and the graph snapshot of a model never change.
C9_SnapshotImmutable ==
    [][\A m \in Models :
          /\ _original_nll[m] # Null => _original_nll'[m] = _original_nll[m]
          /\ _original_graph_def[m] # Null
                => _original_graph_def'[m] = _original_graph_def[m]]_vars

\* ----------------------------------------------------------------------- C10
\* C10: after observed() completes, the node-to-handle and handle-to-node maps
\* are inverse bijections and the nodes they map are the tracked nodes.
C10_InverseMaps ==
    Returned("observed") =>
        LET p2v == Get(_placeholder_to_variable[last.m])
            v2p == Get(_variable_to_placeholder[last.m])
        IN /\ DOMAIN p2v = Range(_components[last.m])
           /\ \A k \in DOMAIN p2v : p2v[k] \in DOMAIN v2p /\ v2p[p2v[k]] = k
           /\ \A h \in DOMAIN v2p : v2p[h] \in DOMAIN p2v /\ p2v[v2p[h]] = h

\* ----------------------------------------------------------------------- C11
Evaluations == {"pdf", "nll", "fit"}

\* the call o raised before it ran anything in the session
NothingEvaluated(o) ==
    /\ o.arg.feed = Null
    /\ o.op \in {"pdf", "nll"} => o.arg.fetch = Null /\ o.arg.params = Null
    /\ o.op = "fit" => o.arg.inits = Null /\ o.arg.bounds = Null

\* C11: pdf, nll and fit on a model on which no observed() call got past its
\* checks raise ModelError "observed() has not been called", whatever scopes
\* were opened and closed and whatever nodes were constructed before, and
\* evaluate and assign nothing.
C11_NotObserved ==
    [][(last'.op \in Evaluations /\ rewrites[last'.m] = 0)
          => /\ last'.result = "ModelError: not observed"
             /\ NothingEvaluated(last')
             /\ values' = values]_vars

\* fit was refused on a closed model that tracks a node
C11_Witness ==
    /\ Called("fit") /\ last.result = "ModelError: not observed"
    /\ rewrites[last.m] = 0
    /\ _components[last.m] # << >>
    /\ _original_graph_def[last.m] # Null
    /\ last.m \notin with_block

\* ----------------------------------------------------------------------- C12
\* C12: once observed() has been called with n nodes, pdf, nll and fit with a
\* number of data arguments other than n raise ModelError, and evaluate and
\* assign nothing.
C12_CountChecked ==
    [][(/\ last'.op \in Evaluations
        /\ _observed[last'.m] # Null
        /\ last'.arg.n # Len(Get(_observed[last'.m])))
          => /\ last'.result = "ModelError: count"
             /\ NothingEvaluated(last')
             /\ values' = values]_vars

\* nll was refused with one argument after a completed observed() with two
C12_Witness ==
    /\ Called("nll") /\ last.result = "ModelError: count"
    /\ last.arg.n = 1
    /\ Len(Get(_observed[last.m])) = 2
    /\ _nll[last.m] # Null /\ Get(_nll[last.m]).graph = rewrites[last.m]

\* ----------------------------------------------------------------------- C13
\* C13: when pdf, nll or fit evaluates, data argument i is fed to placeholder i
\* of the graph of the most recent observed() call, which is the handle made
\* for the i-th node passed to that call, and nothing else is fed.
C13_FedInOrder ==
    (last.op \in Evaluations /\ last.result = "ok") =>
        LET m == last.m
            obs == Get(_observed[m])
            feed == Get(last.arg.feed)
            g == rewrites[m]
        IN /\ last.arg.n = Len(obs)
           /\ DOMAIN feed = {Placeholder(g, i) : i \in 1..Len(obs)}
           /\ \A i \in 1..Len(obs) :
                 /\ feed[Placeholder(g, i)] = Data(last.arg.n)[i]
                 /\ Get(_observed_new[m])[i] = Placeholder(g, i)
                 /\ Get(_variable_to_placeholder[m])[Placeholder(g, i)] = obs[i]

\* nll ran with two arguments after a second observed() with two nodes
C13_Witness ==
    /\ Returned("nll")
    /\ last.arg.n = 2
    /\ Get(_observed[last.m])[1] # Get(_observed[last.m])[2]
    /\ rewrites[last.m] = 2

\* ----------------------------------------------------------------------- C14
\* k is a hidden node of m: a node whose handle is a parameter of the session
IsHiddenNode(m, k) ==
    /\ _placeholder_to_variable[m] # Null
    /\ k \in DOMAIN Get(_placeholder_to_variable[m])
    /\ Get(_placeholder_to_variable[m])[k] \in DOMAIN values[m]

\* C14: assign() keyed by hidden nodes completes, sets the parameter of each
\* key to its value and leaves every other parameter as it was; no call other
\* than assign, fit and observed changes a parameter, and pdf and nll evaluate
\* with the parameters as they stand.
C14_AssignPersists ==
    [][/\ last'.op = "assign" =>
            LET m == last'.m
                d == last'.arg
                p2v == Get(_placeholder_to_variable[m])
            IN (DOMAIN d # {} /\ \A k \in DOMAIN d : IsHiddenNode(m, k))
                  => /\ last'.result = "ok"
                     /\ DOMAIN values'[m] = DOMAIN values[m]
                     /\ \A k \in DOMAIN d : values'[m][p2v[k]] = d[k]
                     /\ \A h \in DOMAIN values[m] :
                           (\A k \in DOMAIN d : p2v[k] # h)
                              => values'[m][h] = values[m][h]
       /\ last'.op \notin {"assign", "fit", "observed"} => values' = values
       /\ (last'.op \in {"pdf", "nll"} /\ last'.result = "ok")
             => Get(last'.arg.params) = values[last'.m]]_vars

\* assign set one of two parameters and the other kept a value it was given
C14_Witness ==
    /\ Returned("assign")
    /\ \E k \in DOMAIN last.arg :
          /\ IsHiddenNode(last.m, k)
          /\ values[last.m][Get(_placeholder_to_variable[last.m])[k]] = 0
    /\ \E h \in DOMAIN values[last.m] : values[last.m][h] = 1

\* ----------------------------------------------------------------------- C15
\* k is a run-time parameter of m
IsParameter(m, k) == k \in DOMAIN values[m]

\* C15 as stated: assign() keyed by hidden nodes or by their run-time
\* parameters completes and sets each parameter to the value given.
C15_NodeOrHandle ==
    (/\ Called("assign")
     /\ DOMAIN last.arg # {}
     /\ \A k \in DOMAIN last.arg : IsHiddenNode(last.m, k) \/ IsParameter(last.m, k))
        => /\ last.result = "ok"
           /\ \A k \in DOMAIN last.arg :
                 values[last.m][IF IsParameter(last.m, k) THEN k
                                ELSE Get(_placeholder_to_variable[last.m])[k]]
                    = last.arg[k]

\* C15 (amended): assign() takes hidden nodes as keys; a mapping with a
\* run-time parameter as a key raises (KeyError when every key is one) and an
\* empty mapping raises ValueError, and neither changes a parameter.
C15_NodeKeysOnly ==
    [][last'.op = "assign" =>
          LET m == last'.m
              d == last'.arg
          IN /\ DOMAIN d = {} => last'.result = "ValueError" /\ values' = values
             /\ (\E k \in DOMAIN d : IsParameter(m, k))
                   => last'.result # "ok" /\ values' = values
             /\ (DOMAIN d # {} /\ \A k \in DOMAIN d : IsParameter(m, k))
                   => last'.result = "KeyError"
             /\ (DOMAIN d # {} /\ \A k \in DOMAIN d : IsHiddenNode(m, k))
                   => /\ last'.result = "ok"
                      /\ \A k \in DOMAIN d :
                            values'[m][Get(_placeholder_to_variable[m])[k]] = d[k]]_vars

\* assign keyed by the parameter of a hidden node was refused
C15_Witness ==
    /\ Called("assign") /\ last.result = "KeyError"
    /\ \E k \in DOMAIN last.arg :
          /\ IsParameter(last.m, k)
          /\ k \in Range(Get(_hidden[last.m]))
          /\ last.arg[k] # values[last.m][k]

\* ----------------------------------------------------------------------- C16
\* the class of the node behind parameter h of m
ClassOf(m, h) == created[Get(_variable_to_placeholder[m])[h].idx].class

\* an end of the support of a class of nodes: Null when the class does not
\* declare it or declares it None
SupportEnd(c, end) == IF end \in c.declares THEN c[end] ELSE Null

\* C16: when fit reaches the minimizer, the initial vector and the bounds have
\* one entry per hidden parameter, in the order of the hidden list: entry i of
\* the initial vector is the value parameter i holds, and entry i of the bounds
\* is the support of the node of parameter i, a finite lower end raised by Eps,
\* a finite upper end lowered by Eps, an unbounded or undeclared end None.
C16_InitsAndBounds ==
    [][(last'.op = "fit" /\ last'.arg.inits # Null) =>
          LET m == last'.m
              hidden == Get(_hidden[m])
              inits == Get(last'.arg.inits)
              bounds == Get(last'.arg.bounds)
          IN /\ Len(inits) = Len(hidden)
             /\ Len(bounds) = Len(hidden)
             /\ \A i \in 1..Len(hidden) :
                   LET lo == SupportEnd(ClassOf(m, hidden[i]), "lower")
                       up == SupportEnd(ClassOf(m, hidden[i]), "upper")
                   IN /\ inits[i] = values[m][hidden[i]]
                      /\ bounds[i][1] = IF lo = Null THEN Null ELSE <<lo[1] + Eps>>
                      /\ bounds[i][2] = IF up = Null THEN Null ELSE <<up[1] - Eps>>
             /\ session[m].graph = rewrites[m]
                   => \A i \in 1..Len(hidden) :
                         Get(_variable_to_placeholder[m])[hidden[i]]
                            = SelectSeq(_components[m],
                                  LAMBDA x : x \notin Range(Get(_observed[m])))[i]]_vars

\* fit reached the minimizer with two parameters of different values and
\* different bounds, one of them bounded on both sides
C16_Witness ==
    /\ Called("fit") /\ last.arg.inits # Null
    /\ Len(Get(last.arg.inits)) = 2
    /\ Get(last.arg.inits)[1] # Get(last.arg.inits)[2]
    /\ Get(last.arg.bounds)[1] # Get(last.arg.bounds)[2]
    /\ \E i \in 1..2 : Get(last.arg.bounds)[i] = <<<<0 + Eps>>, <<3 - Eps>>>>

\* ----------------------------------------------------------------------- C17
\* C17: every model has exactly one live session, the one self.session is
\* bound to; in a completed observed() the model has at most one live session
\* at each step of the replacement, and afterwards its only session is the
\* one of the graph just rewritten.
C17_OneSession ==
    /\ \A m \in Models : live[m] = {session[m].graph}
    /\ Returned("observed") =>
          /\ \A i \in 1..Len(Get(last.arg.swap)) :
                Cardinality(Get(last.arg.swap)[i]) <= 1
          /\ Get(last.arg.swap)[1] = {}
          /\ live[last.m] = {rewrites[last.m]}

\* a session built by observed() was replaced by a second observed()
C17_Witness ==
    /\ Returned("observed")
    /\ rewrites[last.m] = 2
    /\ session[last.m].graph = 2

\* ----------------------------------------------------------------------- C18
\* the place of node x in the tracked-node list of m
Place(m, x) == CHOOSE p \in 1..Len(_components[m]) : _components[m][p] = x

\* C18: after observed() completes, the hidden parameters stand, once each,
\* for the tracked nodes that were not passed, and they are in the order of
\* the tracked-node list, which is the order of construction.
C18_HiddenInTrackedOrder ==
    Returned("observed") =>
        LET m == last.m
            hidden == Get(_hidden[m])
            node == [i \in 1..Len(hidden) |-> Get(_variable_to_placeholder[m])[hidden[i]]]
        IN /\ Range(node) = Range(_components[m]) \ Range(Get(_observed[m]))
           /\ \A i, j \in 1..Len(hidden) :
                 i < j => /\ Place(m, node[i]) < Place(m, node[j])
                          /\ node[i].idx < node[j].idx

\* two nodes were passed in the reverse of their order of construction, and
\* two hidden nodes remain, one of them constructed between the two passed
C18_Witness ==
    /\ Returned("observed")
    /\ Len(Get(_hidden[last.m])) = 2
    /\ Len(Get(_observed[last.m])) = 2
    /\ Get(_observed[last.m])[1].idx > Get(_observed[last.m])[2].idx
    /\ \E x \in Range(_components[last.m]) \ Range(Get(_observed[last.m])) :
          /\ Get(_observed[last.m])[2].idx < x.idx
          /\ x.idx < Get(_observed[last.m])[1].idx

\* ----------------------------------------------------------------------- C19
\* C19: observed() called on the model that is open, or with an argument that
\* is not a distribution node, raises ModelError or ValueError and changes
\* nothing: the split, the maps, the parameter values, the session and every
\* other attribute are as before the call, so pdf, nll and fit, which read
\* nothing else, behave as before.
C19_RejectedChangesNothing ==
    [][(/\ last'.op = "observed"
        /\ \/ _current_model = last'.m
           \/ ~(last'.arg.types \subseteq {"BaseDistribution"}))
          => /\ last'.result \in {"ModelError", "ValueError"}
             /\ UNCHANGED <<_current_model, default_graph, created, scopes,
                            with_block, modelVars, splitVars, sessionVars,
                            rewrites>>]_vars

\* a model with a completed split and an assigned parameter refused a call
\* that was given a node and an object that is not a node
C19_Witness ==
    /\ Called("observed") /\ last.result = "ValueError"
    /\ last.arg.types = {"BaseDistribution", "object"}
    /\ _nll[last.m] # Null
    /\ session[last.m].graph = rewrites[last.m]
    /\ \E h \in DOMAIN values[last.m] : values[last.m][h] = 1

====
